---- MODULE Spec2Model ----
(***************************************************************************)
(* Telegram Mini App, browser side: the telemetry client (js/api.js), the  *)
(* bank directory loader (js/banks.js) and the redirect page controller    *)
(* (redirect/redirect.js), as one state machine over a single page view.   *)
(*                                                                         *)
(* Every action is one JavaScript task: a handler runs to completion, and  *)
(* a promise's reactions run right after the task that settles it.         *)
(*                                                                         *)
(* JavaScript values are strings here.  Undefined stands for a missing     *)
(* property, and Truthy is the test that `||` and `if` apply.  Non-ASCII   *)
(* literals of the source (the bank titles, the status text) are written   *)
(* in ASCII.                                                               *)
(***************************************************************************)
EXTENDS Naturals, Sequences, FiniteSets, TLC

Undefined == "<undefined>"
Null == "<null>"
None == "<none>"

Truthy(v) == v \notin {Undefined, Null, ""}

\* a || b of JavaScript
Or(a, b) == IF Truthy(a) THEN a ELSE b

(***************************************************************************)
(* Bounds of the model.                                                    *)
(***************************************************************************)
MaxDirLen == 2
MaxClicks == 1
MaxBlurs == 1
MaxApiCalls == 2

(***************************************************************************)
(* js/banks.js                                                             *)
(***************************************************************************)
Bank(id, title, logo, deeplink, fallback_url) ==
  [kind |-> "object", id |-> id, title |-> title, logo |-> logo,
   deeplink |-> deeplink, fallback_url |-> fallback_url]

\* A null element of a fetched array: reading a property of it throws.
NullEntry ==
  [kind |-> "null", id |-> Undefined, title |-> Undefined, logo |-> Undefined,
   deeplink |-> Undefined, fallback_url |-> Undefined]

\* The static list returned by the catch branch of loadBanks.
FallbackBanks ==
  << Bank("sber", "Sberbank", "assets/img/banks/sber.png",
          "https://www.sberbank.com/sms/pbpn?requisiteNumber=79309791051",
          "https://www.sberbank.com/sms/pbpn?requisiteNumber=79309791051"),
     Bank("alfabank", "Alfa-Bank", "assets/img/banks/alfabank.png",
          "alfabank://account", "https://web.alfabank.ru/dashboard"),
     Bank("tbank", "T-Bank", "assets/img/banks/tbank.png",
          "tbank://main", "https://www.tbank.ru/mybank/"),
     Bank("rshb", "Rosselhozbank", "assets/img/banks/rshb.png",
          "rshbmbfl://", "https://online.rshb.ru/cas-auth/index?forceAuth=true"),
     Bank("gazprombank", "Gazprombank", "assets/img/banks/gazprombank.png",
          "gpbapp://", "https://ib.online.gpb.ru/"),
     Bank("psb", "PSB", "assets/img/banks/psb.png",
          "psbmobile://auth/accounts", "https://ib.psbank.ru/settings"),
     Bank("mkb", "MKB", "assets/img/banks/mkb.png",
          "mkb2://deeplink", "https://online.mkb.ru/login"),
     Bank("vtb", "VTB", "assets/img/banks/vtb.png",
          "vtb://vtb.ru/i/", "https://online.vtb.ru/login"),
     Bank("mtsbank", "MTS Bank", "assets/img/banks/mtsbank.png",
          "mtsmoney://", "https://sso.mtsbank.ru/login/mtsmoney/auth/"),
     Bank("pochtabank", "Pochta Bank", "assets/img/banks/pochtabank.png",
          "bank100000000016://sbpay", "https://my.pochtabank.ru/login"),
     Bank("sovcombank", "Sovcombank", "assets/img/banks/sovcombank.png",
          "ompshared://", "https://bk.sovcombank.ru/ru/html/login.html") >>

\* A JSON value the directory resource can hold: an array, or something else.
JsonArray(items) == [isArray |-> TRUE, items |-> items]
JsonObject == [isArray |-> FALSE, items |-> << >>]

\* What the promise returned by loadBanks settles to.
Resolved(v) == [state |-> "resolved", value |-> v]
Rejected == [state |-> "rejected", value |-> JsonObject]
Pending == [state |-> "pending", value |-> JsonObject]

\* loadBanks without its catch branch.
loadBanksNoCatch(response) ==
  IF response.kind = "ok" THEN Resolved(response.body) ELSE Rejected

\* fetch(...).then(...).catch(...): `response` is what the network does with
\* the request: "network_error" (fetch rejects), "http_error" (!response.ok),
\* "parse_error" (response.json() rejects) or "ok" (the parsed body).
loadBanks(response) ==
  IF response.kind = "ok"
    THEN Resolved(response.body)
    ELSE Resolved(JsonArray(FallbackBanks))

(***************************************************************************)
(* js/api.js                                                               *)
(***************************************************************************)
API_BASE_URL == "http://localhost:8080/api/webapp"

\* Objects of the Telegram context.  An object is a record with a `defined`
\* flag (FALSE: the property holding it is missing) and its properties.
Inline(creator, generatedAt, parsed, option) ==
  [defined |-> TRUE, creator_tg_user_id |-> creator, generated_at |-> generatedAt,
   parsed |-> parsed, option |-> option]
EmptyInline == Inline(Undefined, Undefined, Undefined, Undefined)
NoInline == [EmptyInline EXCEPT !.defined = FALSE]

TransferPayload(payload) == [defined |-> TRUE, payload |-> payload]
EmptyTransferPayload == TransferPayload(NoInline)
NoTransferPayload == [EmptyTransferPayload EXCEPT !.defined = FALSE]

InitDataUnsafe(startParam) == [defined |-> TRUE, start_param |-> startParam]
EmptyInitDataUnsafe == InitDataUnsafe(Undefined)
NoInitDataUnsafe == [EmptyInitDataUnsafe EXCEPT !.defined = FALSE]

Context(startParam, initData, initDataUnsafe, transferPayload) ==
  [defined |-> TRUE, startParam |-> startParam, initData |-> initData,
   initDataUnsafe |-> initDataUnsafe, transferPayload |-> transferPayload]
EmptyContext == Context(Undefined, Undefined, NoInitDataUnsafe, NoTransferPayload)
NoContext == [EmptyContext EXCEPT !.defined = FALSE]

\* The browser's navigator object.
navigator ==
  [userAgent |-> "<userAgent>", language |-> "<language>", platform |-> "<platform>"]

NoExtra == << >>

\* transfer_id resolved from initDataUnsafe before startParam.
TransferIdInitDataFirst(safeContext) ==
  Or(Or(IF safeContext.initDataUnsafe.defined
          THEN safeContext.initDataUnsafe.start_param ELSE "",
        safeContext.startParam), "")

TransferId(safeContext) ==
  Or(Or(safeContext.startParam,
        IF safeContext.initDataUnsafe.defined
          THEN safeContext.initDataUnsafe.start_param ELSE ""), "")

\* buildPayload whose base fields win over `extra`.
buildPayloadBaseWins(context, eventType, bankId, page, extra) ==
  LET safeContext == IF context.defined THEN context ELSE EmptyContext
      transferPayload == IF safeContext.transferPayload.defined
                           THEN safeContext.transferPayload
                           ELSE EmptyTransferPayload
      inlinePayload == IF transferPayload.payload.defined
                         THEN transferPayload.payload ELSE EmptyInline
      basePayload ==
        [transfer_id |-> TransferId(safeContext),
         transfer_payload |-> transferPayload,
         inline_creator_tg_user_id |-> Or(inlinePayload.creator_tg_user_id, Null),
         inline_generated_at |-> Or(inlinePayload.generated_at, ""),
         inline_parsed |-> Or(inlinePayload.parsed, "{}"),
         inline_option |-> Or(inlinePayload.option, "{}"),
         event_type |-> eventType,
         ts |-> "<now>",
         initData |-> Or(safeContext.initData, ""),
         initDataUnsafe |-> IF safeContext.initDataUnsafe.defined
                              THEN safeContext.initDataUnsafe
                              ELSE EmptyInitDataUnsafe,
         userAgent |-> Or(navigator.userAgent, ""),
         language |-> Or(navigator.language, ""),
         platform |-> Or(navigator.platform, ""),
         page |-> page,
         bank_id |-> Or(bankId, "")]
  IN  basePayload @@ extra

buildPayload(context, eventType, bankId, page, extra) ==
  LET safeContext == IF context.defined THEN context ELSE EmptyContext
      transferPayload == IF safeContext.transferPayload.defined
                           THEN safeContext.transferPayload
                           ELSE EmptyTransferPayload
      inlinePayload == IF transferPayload.payload.defined
                         THEN transferPayload.payload ELSE EmptyInline
      basePayload ==
        [transfer_id |-> TransferId(safeContext),
         transfer_payload |-> transferPayload,
         inline_creator_tg_user_id |-> Or(inlinePayload.creator_tg_user_id, Null),
         inline_generated_at |-> Or(inlinePayload.generated_at, ""),
         inline_parsed |-> Or(inlinePayload.parsed, "{}"),
         inline_option |-> Or(inlinePayload.option, "{}"),
         event_type |-> eventType,
         ts |-> "<now>",
         initData |-> Or(safeContext.initData, ""),
         initDataUnsafe |-> IF safeContext.initDataUnsafe.defined
                              THEN safeContext.initDataUnsafe
                              ELSE EmptyInitDataUnsafe,
         userAgent |-> Or(navigator.userAgent, ""),
         language |-> Or(navigator.language, ""),
         platform |-> Or(navigator.platform, ""),
         page |-> page,
         bank_id |-> Or(bankId, "")]
  IN  extra @@ basePayload

\* What starting the POST does: the request is under way ("started"), fetch
\* throws synchronously ("fetch_threw"), or JSON.stringify throws
\* ("stringify_threw").
PostOutcomes == {"started", "fetch_threw", "stringify_threw"}

\* The page's mutable state as the code of one task sees it.  `exc` is the
\* exception in flight (None when there is none): code after a throw is
\* skipped up to the enclosing catch.
Send(w, jsonBody) ==
  [w EXCEPT !.events = Append(@, jsonBody),
            !.log = Append(@, [kind |-> "send", arg |-> jsonBody.event_type])]

\* console.debug(...): the line is logged.
Debug(w, what) ==
  [w EXCEPT !.log = Append(@, [kind |-> "debug", arg |-> what])]

\* safePost without its try/catch.
safePostNoCatch(w, jsonBody, outcome) ==
  IF w.exc # None THEN w
  ELSE IF ~Truthy(w.endpoint) THEN Debug(Send(w, jsonBody), "BASE_URL")
  ELSE IF outcome = "started"
    THEN [Send(w, jsonBody) EXCEPT !.started = @ + 1, !.pending = @ + 1]
    ELSE [Send(w, jsonBody) EXCEPT !.exc = outcome]

\* safePost without the test of API_BASE_URL.
safePostNoUrlTest(w, jsonBody, outcome) ==
  IF w.exc # None THEN w
  ELSE IF outcome = "started"
    THEN [Send(w, jsonBody) EXCEPT !.started = @ + 1, !.pending = @ + 1]
    ELSE Send(w, jsonBody)

safePost(w, jsonBody, outcome) ==
  IF w.exc # None THEN w
  ELSE IF ~Truthy(w.endpoint) THEN Debug(Send(w, jsonBody), "BASE_URL")
  ELSE IF outcome = "started"
    THEN [Send(w, jsonBody) EXCEPT !.started = @ + 1, !.pending = @ + 1]
    ELSE Send(w, jsonBody)

sendWebAppOpen(w, context, outcome) ==
  safePost(w, buildPayload(context, "webapp_open", "", "miniapp", NoExtra), outcome)

sendBankClick(w, context, bankId, outcome) ==
  safePost(w, buildPayload(context, "bank_click", bankId, "miniapp", NoExtra), outcome)

\* sendRedirectEvent that hands its arguments on as they are.
sendRedirectEventNoDefaults(w, context, bankId, eventType, pageOverride, outcome) ==
  safePost(w, buildPayload(context, eventType, bankId, pageOverride, NoExtra), outcome)

sendRedirectEvent(w, context, bankId, eventType, pageOverride, outcome) ==
  safePost(w, buildPayload(context, Or(eventType, "redirect_open"), bankId,
                           Or(pageOverride, "redirect"), NoExtra), outcome)

(***************************************************************************)
(* redirect/redirect.js                                                    *)
(***************************************************************************)
Effect(w, kind, arg) ==
  [w EXCEPT !.log = Append(@, [kind |-> kind, arg |-> arg])]

\* The default bank without a fallback URL.
fallbackBankNoUrl(bankId) ==
  Bank(Or(bankId, "unknown"), "Vash bank", Undefined, "", "")

\* The object literal of lines 17-22 and of lines 29-34.
fallbackBank(bankId) ==
  Bank(Or(bankId, "unknown"), "Vash bank", Undefined, "", "https://www.google.com")

\* banks.find(bank => bank.id === bankId) from index i on: the index of the
\* first match, 0 for undefined, or a TypeError at a null element met first.
RECURSIVE FindFrom(_, _, _)
FindFrom(items, bankId, i) ==
  IF i > Len(items) THEN [exc |-> None, index |-> 0]
  ELSE IF items[i].kind = "null" THEN [exc |-> "TypeError", index |-> 0]
  ELSE IF items[i].id = bankId THEN [exc |-> None, index |-> i]
  ELSE FindFrom(items, bankId, i + 1)

\* The selection with banks[0] taken before the search.
targetBankFirstEntry(banks, bankId) ==
  IF ~banks.isArray THEN [exc |-> "TypeError", bank |-> fallbackBank(bankId)]
  ELSE IF Len(banks.items) > 0 /\ banks.items[1].kind = "object"
    THEN [exc |-> None, bank |-> banks.items[1]]
    ELSE [exc |-> None, bank |-> fallbackBank(bankId)]

\* banks.find(...) || banks[0] || { ... }: the bank, or the exception raised.
targetBank(banks, bankId) ==
  IF ~banks.isArray THEN [exc |-> "TypeError", bank |-> fallbackBank(bankId)]
  ELSE LET found == FindFrom(banks.items, bankId, 1)
       IN  IF found.exc # None THEN [exc |-> found.exc, bank |-> fallbackBank(bankId)]
           ELSE IF found.index > 0 THEN [exc |-> None, bank |-> banks.items[found.index]]
           ELSE IF Len(banks.items) > 0 THEN [exc |-> None, bank |-> banks.items[1]]
           ELSE [exc |-> None, bank |-> fallbackBank(bankId)]

\* updateUi that prefers the deep link for the manual link.
updateUiDeeplinkFirst(w, bank) ==
  IF w.exc # None THEN w
  ELSE Effect([w EXCEPT !.statusText = "Otkryvaem bank: " \o bank.title \o "...",
                        !.href = Or(Or(bank.deeplink, bank.fallback_url), "#"),
                        !.clickListeners = Append(@, bank.id)],
              "ui", bank.id)

updateUi(w, bank) ==
  IF w.exc # None THEN w
  ELSE Effect([w EXCEPT !.statusText = "Otkryvaem bank: " \o bank.title \o "...",
                        !.href = Or(Or(bank.fallback_url, bank.deeplink), "#"),
                        !.clickListeners = Append(@, bank.id)],
              "ui", bank.id)

\* switchToFallback that navigates without emitting the event first.
switchToFallbackNavFirst(w, context, bank, outcome) ==
  IF w.exc # None THEN w
  ELSE LET moved == IF Truthy(bank.fallback_url)
                      THEN Effect(w, "nav_fallback", bank.fallback_url)
                      ELSE w
       IN  sendRedirectEvent(moved, context, bank.id, "redirect_fallback",
                             Undefined, outcome)

\* Lines 70-75.  The assignment of line 73 is taken to succeed: the source
\* has no handler around it, and the directory's fallback URLs are taken to
\* be well-formed web addresses; only the deep link, a custom scheme, may
\* raise when it is assigned (lines 62-67).
switchToFallback(w, context, bank, outcome) ==
  IF w.exc # None THEN w
  ELSE LET sent == sendRedirectEvent(w, context, bank.id, "redirect_fallback",
                                     Undefined, outcome)
       IN  IF sent.exc = None /\ Truthy(bank.fallback_url)
             THEN Effect(sent, "nav_fallback", bank.fallback_url)
             ELSE sent

\* tryOpenBank whose catch block only logs.
tryOpenBankNoFallbackOnThrow(w, context, bank, deeplinkThrows, o1, o2) ==
  IF w.exc # None THEN w
  ELSE LET sent == sendRedirectEvent(w, context, bank.id, "redirect_attempt",
                                     Undefined, o1)
       IN  IF sent.exc # None THEN sent
           ELSE IF ~Truthy(bank.deeplink)
             THEN switchToFallback(sent, context, bank, o2)
           ELSE LET armed == Effect([sent EXCEPT !.fallbackTimer = "armed"],
                                    "fallbackTimer", "armed")
                    listening == Effect([armed EXCEPT !.blurListener = TRUE],
                                        "listen", "blur")
                IN  IF deeplinkThrows
                      THEN [listening EXCEPT !.deeplinkThrew = TRUE]
                      ELSE Effect(listening, "nav_deeplink", bank.deeplink)

\* tryOpenBank that arms the fallbackTimer even when the bank has no deep link.
tryOpenBankAlwaysTimer(w, context, bank, deeplinkThrows, o1, o2) ==
  IF w.exc # None THEN w
  ELSE LET sent == sendRedirectEvent(w, context, bank.id, "redirect_attempt",
                                     Undefined, o1)
       IN  IF sent.exc # None THEN sent
           ELSE LET armed == Effect([sent EXCEPT !.fallbackTimer = "armed"],
                                    "fallbackTimer", "armed")
                    listening == Effect([armed EXCEPT !.blurListener = TRUE],
                                        "listen", "blur")
                IN  IF deeplinkThrows \/ ~Truthy(bank.deeplink)
                      THEN switchToFallback(
                             [listening EXCEPT !.deeplinkThrew = deeplinkThrows],
                             context, bank, o2)
                      ELSE Effect(listening, "nav_deeplink", bank.deeplink)

\* tryOpenBank that goes on only when the POST of redirect_attempt started.
tryOpenBankNeedsPost(w, context, bank, deeplinkThrows, o1, o2) ==
  IF w.exc # None THEN w
  ELSE LET sent == sendRedirectEvent(w, context, bank.id, "redirect_attempt",
                                     Undefined, o1)
       IN  IF sent.exc # None \/ o1 # "started" THEN sent
           ELSE IF ~Truthy(bank.deeplink)
             THEN switchToFallback(sent, context, bank, o2)
           ELSE LET armed == Effect([sent EXCEPT !.fallbackTimer = "armed"],
                                    "fallbackTimer", "armed")
                    listening == Effect([armed EXCEPT !.blurListener = TRUE],
                                        "listen", "blur")
                IN  IF deeplinkThrows
                      THEN switchToFallback(
                             [listening EXCEPT !.deeplinkThrew = TRUE],
                             context, bank, o2)
                      ELSE Effect(listening, "nav_deeplink", bank.deeplink)

\* `deeplinkThrows`: whether assigning the deep link to location.href raises.
tryOpenBank(w, context, bank, deeplinkThrows, o1, o2) ==
  IF w.exc # None THEN w
  ELSE LET sent == sendRedirectEvent(w, context, bank.id, "redirect_attempt",
                                     Undefined, o1)
       IN  IF sent.exc # None THEN sent
           ELSE IF ~Truthy(bank.deeplink)
             THEN switchToFallback(sent, context, bank, o2)
           ELSE LET armed == Effect([sent EXCEPT !.fallbackTimer = "armed"],
                                    "fallbackTimer", "armed")
                    listening == Effect([armed EXCEPT !.blurListener = TRUE],
                                        "listen", "blur")
                IN  IF deeplinkThrows
                      THEN switchToFallback(
                             [listening EXCEPT !.deeplinkThrew = TRUE],
                             context, bank, o2)
                      ELSE Effect(listening, "nav_deeplink", bank.deeplink)

(***************************************************************************)
(* The page view.                                                          *)
(***************************************************************************)
VARIABLES
  view,            \* "redirect" or "miniapp": the page that was loaded
  bridge,          \* what TelegramBridge.getTelegramContext() returns
  query,           \* the parameters of the page's query string
  response,        \* what the network does with the directory request
  endpoint,        \* the value API_BASE_URL is configured with
  phase,           \* where the controller is
  telegramContext, \* the controller's context object
  banks,           \* the promise returned by loadBanks
  target,          \* the bank handed to tryOpenBank
  events,          \* the payloads handed to safePost, in order
  log,             \* the effects of the page, in order
  started,         \* POST requests started
  pending,         \* POST requests not settled yet
  failed,          \* POST requests that were rejected
  fallbackTimer,           \* fallbackTimer: "none", "armed", "fired" or "cancelled"
  blurListener,    \* whether the once-listener for blur is registered
  href,            \* fallbackLink.href
  statusText,      \* statusText.textContent
  clickListeners,  \* the bank ids of the click listeners of fallbackLink
  deeplinkThrew,   \* whether assigning the deep link raised
  uncaught,        \* whether a task of the page ended with an exception
  blurs, clicks, apiCalls

vars ==
  << view, bridge, query, response, endpoint, phase, telegramContext, banks, target,
     events, log, started, pending, failed, fallbackTimer, blurListener, href,
     statusText, clickListeners, deeplinkThrew, uncaught, blurs, clicks,
     apiCalls >>

inputs == << view, bridge, query, response, endpoint >>

\* The mutable state handed through the code of one task.
World ==
  [events |-> events, log |-> log, started |-> started, pending |-> pending,
   fallbackTimer |-> fallbackTimer, blurListener |-> blurListener, href |-> href,
   statusText |-> statusText, clickListeners |-> clickListeners,
   deeplinkThrew |-> deeplinkThrew, endpoint |-> endpoint, exc |-> None]

Commit(w) ==
  /\ events' = w.events
  /\ log' = w.log
  /\ started' = w.started
  /\ pending' = w.pending
  /\ fallbackTimer' = w.fallbackTimer
  /\ blurListener' = w.blurListener
  /\ href' = w.href
  /\ statusText' = w.statusText
  /\ clickListeners' = w.clickListeners
  /\ deeplinkThrew' = w.deeplinkThrew
  /\ uncaught' = (uncaught \/ w.exc # None)

(***************************************************************************)
(* The inputs of a page view.                                              *)
(***************************************************************************)
SeqsUpTo(S, n) == UNION {[1..k -> S] : k \in 0..n}

\* Elements of a fetched banks.json: entries are not validated, so a
\* property may be empty or missing, and an element may be null.
Entries ==
  { Bank("vtb", "VTB", "vtb.png", "vtb://open", "https://vtb.example/"),
    Bank("vtb", "VTB 2", Undefined, Undefined, Undefined),
    Bank("b", "Bank B", "b.png", "b://open", ""),
    NullEntry }

Responses ==
  {[kind |-> k, body |-> JsonObject] :
      k \in {"network_error", "http_error", "parse_error"}}
  \cup {[kind |-> "ok", body |-> JsonObject]}
  \cup {[kind |-> "ok", body |-> JsonArray(items)] :
          items \in SeqsUpTo(Entries, MaxDirLen)}

BankIds == {"", "vtb"}
TransferIds == {"", "q"}

StartParams == {Undefined, "", "sp"}
InitDataUnsafes ==
  {NoInitDataUnsafe, EmptyInitDataUnsafe, InitDataUnsafe(""), InitDataUnsafe("isp")}

Contexts ==
  {Context(sp, "<initData>", idu, NoTransferPayload) :
     sp \in StartParams, idu \in InitDataUnsafes}

\* The state when the page's scripts have run and no event was handled yet.
InitAt(endpoints, contexts, transferIds, bankIds, responses) ==
  /\ endpoint \in endpoints
  /\ view \in {"redirect", "miniapp"}
  /\ bridge \in IF view = "redirect" THEN contexts ELSE contexts \cup {NoContext}
  /\ query \in [transfer_id : transferIds, bank_id : bankIds]
  /\ response \in IF view = "redirect" THEN responses
                  ELSE {[kind |-> "network_error", body |-> JsonObject]}
  /\ phase = IF view = "redirect" THEN "Init" ELSE "MiniApp"
  /\ telegramContext = bridge
  /\ banks = Pending
  /\ target = NullEntry
  /\ events = << >>
  /\ log = << >>
  /\ started = 0
  /\ pending = 0
  /\ failed = 0
  /\ fallbackTimer = "none"
  /\ blurListener = FALSE
  /\ href = "<initial>"
  /\ statusText = "<initial>"
  /\ clickListeners = << >>
  /\ deeplinkThrew = FALSE
  /\ uncaught = FALSE
  /\ blurs = 0
  /\ clicks = 0
  /\ apiCalls = 0

\* The same with API_BASE_URL as it is in api.js.
InitWith(contexts, transferIds, bankIds, responses) ==
  InitAt({API_BASE_URL}, contexts, transferIds, bankIds, responses)

(***************************************************************************)
(* Tasks of the redirect page.                                             *)
(***************************************************************************)
\* Line 9: the query's transfer_id fills an empty startParam.
Backfill(context, transferId) ==
  [context EXCEPT !.startParam = Or(@, transferId)]

\* banks.js line 3, on the redirect page and elsewhere.
ConfigPath(onRedirectPage) ==
  IF onRedirectPage THEN "../config/banks.json" ELSE "./config/banks.json"

\* The DOMContentLoaded handler, up to the call of loadBanks, and the
\* synchronous part of loadBanks.
DOMContentLoaded ==
  /\ phase = "Init"
  /\ \E o \in PostOutcomes :
       LET transferId == Or(query.transfer_id, "")
           bankId == Or(query.bank_id, "")
           context == Backfill(bridge, transferId)
           sent == sendRedirectEvent(World, context, bankId, "redirect_open",
                                     Undefined, o)
       IN  \E w \in {IF sent.exc = None
                       THEN Effect(sent, "load", ConfigPath(view = "redirect"))
                       ELSE sent} :
             /\ telegramContext' = context
             /\ phase' = IF w.exc = None THEN "DirectoryLoading" ELSE "Failed"
             /\ Commit(w)
  /\ UNCHANGED << inputs, banks, target, failed, blurs, clicks, apiCalls >>

\* The directory request settles, and with it the promise of loadBanks.
LoadBanksSettles ==
  /\ phase = "DirectoryLoading"
  /\ banks' = loadBanks(response)
  /\ phase' = "DirectorySettled"
  /\ UNCHANGED << inputs, telegramContext, target, events, log, started,
                  pending, failed, fallbackTimer, blurListener, href, statusText,
                  clickListeners, deeplinkThrew, uncaught, blurs, clicks, apiCalls >>

\* The promise chain of lines 13-37 without its catch handler.
BanksReactionsNoCatch(w, promise, context, bankId, deeplinkThrows, o1, o2) ==
  LET chosen == targetBank(promise.value, bankId)
      entered == IF promise.state = "resolved"
                   THEN [w EXCEPT !.exc = chosen.exc]
                   ELSE [w EXCEPT !.exc = "rejected"]
  IN  [world |-> tryOpenBank(updateUi(entered, chosen.bank), context,
                             chosen.bank, deeplinkThrows, o1, o2),
       target |-> chosen.bank]

\* The promise chain whose catch handler only logs the error.
BanksReactionsCatchLogsOnly(w, promise, context, bankId, deeplinkThrows, o1, o2) ==
  LET chosen == targetBank(promise.value, bankId)
      entered == IF promise.state = "resolved"
                   THEN [w EXCEPT !.exc = chosen.exc]
                   ELSE [w EXCEPT !.exc = "rejected"]
      thenDone == tryOpenBank(updateUi(entered, chosen.bank), context,
                              chosen.bank, deeplinkThrows, o1, o2)
      caught == [thenDone EXCEPT !.exc = None]
  IN  IF thenDone.exc = None
        THEN [world |-> thenDone, target |-> chosen.bank]
        ELSE [world |-> caught, target |-> fallbackBank(bankId)]

\* The promise chain whose second handler runs after the first in any case.
BanksReactionsCatchAlways(w, promise, context, bankId, deeplinkThrows, o1, o2) ==
  LET chosen == targetBank(promise.value, bankId)
      entered == IF promise.state = "resolved"
                   THEN [w EXCEPT !.exc = chosen.exc]
                   ELSE [w EXCEPT !.exc = "rejected"]
      thenDone == tryOpenBank(updateUi(entered, chosen.bank), context,
                              chosen.bank, deeplinkThrows, o1, o2)
      caught == [thenDone EXCEPT !.exc = None]
  IN  [world |-> tryOpenBank(updateUi(caught, fallbackBank(bankId)), context,
                             fallbackBank(bankId), FALSE, o1, o2),
       target |-> fallbackBank(bankId)]

\* The reactions of lines 14-37 to the settled promise: the then handler,
\* and the catch handler when the promise was rejected or the then handler
\* threw.  `target` is the bank handed to tryOpenBank last.
BanksReactions(w, promise, context, bankId, deeplinkThrows, o1, o2) ==
  LET chosen == targetBank(promise.value, bankId)
      entered == IF promise.state = "resolved"
                   THEN [w EXCEPT !.exc = chosen.exc]
                   ELSE [w EXCEPT !.exc = "rejected"]
      thenDone == tryOpenBank(updateUi(entered, chosen.bank), context,
                              chosen.bank, deeplinkThrows, o1, o2)
      caught == [thenDone EXCEPT !.exc = None]
  IN  IF thenDone.exc = None
        THEN [world |-> thenDone, target |-> chosen.bank]
        ELSE [world |-> tryOpenBank(updateUi(caught, fallbackBank(bankId)), context,
                                    fallbackBank(bankId), FALSE, o1, o2),
              target |-> fallbackBank(bankId)]

\* The promise of loadBanks is settled and its reactions run.
BanksHandled ==
  /\ phase = "DirectorySettled"
  /\ \E deeplinkThrows \in BOOLEAN, o1, o2 \in PostOutcomes :
       \E done \in {BanksReactions(World, banks, telegramContext,
                                   Or(query.bank_id, ""), deeplinkThrows, o1, o2)} :
         /\ target' = done.target
         /\ phase' = IF done.world.exc = None THEN "Attempted" ELSE "Failed"
         /\ Commit(done.world)
  /\ UNCHANGED << inputs, telegramContext, banks, failed, blurs, clicks, apiCalls >>

\* The callback of setTimeout, lines 54-56.
TimerFires ==
  /\ fallbackTimer = "armed"
  /\ \E o \in PostOutcomes :
       \E w \in {switchToFallback(Effect([World EXCEPT !.fallbackTimer = "fired"],
                                         "timeout", "fallbackTimer"),
                                  telegramContext, target, o)} :
         Commit(w)
  /\ UNCHANGED << inputs, phase, telegramContext, banks, target, failed,
                  blurs, clicks, apiCalls >>

\* A blur listener that leaves the fallbackTimer alone.
ClearTimeoutNoop(w) == Effect(w, "clearTimeout", "blur")

\* A blur listener that withdraws the fallbackTimer in whatever state it is.
ClearTimeoutAnyState(w) ==
  Effect([w EXCEPT !.fallbackTimer = "cancelled"], "clearTimeout", "blur")

\* clearTimeout(fallbackTimer), line 59.
ClearTimeout(w) ==
  Effect([w EXCEPT !.fallbackTimer = IF @ = "armed" THEN "cancelled" ELSE @],
         "clearTimeout", "blur")

\* The window loses focus; the listener of lines 58-60 runs at most once.
Blur ==
  /\ view = "redirect"
  /\ blurs < MaxBlurs
  /\ blurs' = blurs + 1
  /\ IF blurListener
       THEN \E w \in {ClearTimeout([World EXCEPT !.blurListener = FALSE])} :
              Commit(w)
       ELSE UNCHANGED << events, log, started, pending, fallbackTimer, blurListener,
                         href, statusText, clickListeners, deeplinkThrew,
                         uncaught >>
  /\ UNCHANGED << inputs, phase, telegramContext, banks, target, failed,
                  clicks, apiCalls >>

\* The listeners of lines 42-44, in the order they were added.
RECURSIVE ClickHandlers(_, _, _, _)
ClickHandlers(w, context, i, outcomes) ==
  IF i > Len(w.clickListeners) THEN w
  ELSE ClickHandlers(
         [sendRedirectEvent(w, context, w.clickListeners[i],
                            "redirect_manual_click", Undefined, outcomes[i])
            EXCEPT !.exc = None],
         context, i + 1, outcomes)

\* The user clicks the manual link.
ManualClick ==
  /\ view = "redirect"
  /\ phase # "Init"
  /\ clicks < MaxClicks
  /\ clicks' = clicks + 1
  /\ \E outcomes \in [1..Len(clickListeners) -> PostOutcomes] :
       \E w \in {ClickHandlers(World, telegramContext, 1, outcomes)} :
         Commit(w)
  /\ UNCHANGED << inputs, phase, telegramContext, banks, target, failed,
                  blurs, apiCalls >>

\* A POST started by safePost settles; lines 40-45 do nothing with it.
PostSettles ==
  /\ pending > 0
  /\ pending' = pending - 1
  /\ \E ok \in BOOLEAN : failed' = IF ok THEN failed ELSE failed + 1
  /\ UNCHANGED << inputs, phase, telegramContext, banks, target, events, log,
                  started, fallbackTimer, blurListener, href, statusText,
                  clickListeners, deeplinkThrew, uncaught, blurs, clicks, apiCalls >>

(***************************************************************************)
(* Calls of the telemetry client on the Mini App page.                     *)
(***************************************************************************)
WebAppOpen ==
  /\ view = "miniapp"
  /\ apiCalls < MaxApiCalls
  /\ apiCalls' = apiCalls + 1
  /\ \E o \in PostOutcomes :
       \E w \in {sendWebAppOpen(World, telegramContext, o)} : Commit(w)
  /\ UNCHANGED << inputs, phase, telegramContext, banks, target, failed,
                  blurs, clicks >>

BankClickWith(bankId) ==
  /\ view = "miniapp"
  /\ apiCalls < MaxApiCalls
  /\ apiCalls' = apiCalls + 1
  /\ \E o \in PostOutcomes :
       \E w \in {sendBankClick(World, telegramContext, bankId, o)} : Commit(w)
  /\ UNCHANGED << inputs, phase, telegramContext, banks, target, failed,
                  blurs, clicks >>

BankClick == \E bankId \in BankIds : BankClickWith(bankId)

Next ==
  \/ DOMContentLoaded
  \/ LoadBanksSettles
  \/ BanksHandled
  \/ TimerFires
  \/ Blur
  \/ ManualClick
  \/ PostSettles
  \/ WebAppOpen
  \/ BankClick

\* Page views over every directory response.
Init ==
  InitWith({Context(Undefined, "<initData>", InitDataUnsafe("isp"), NoTransferPayload)},
           {"q"}, BankIds, Responses)

Spec == Init /\ [][Next]_vars

\* Page views over every Telegram context, with a failing and an empty
\* directory.
InitPayload ==
  InitWith(Contexts, TransferIds, {"vtb"},
           {[kind |-> "network_error", body |-> JsonObject],
            [kind |-> "ok", body |-> JsonArray(<< >>)]})

SpecPayload == InitPayload /\ [][Next]_vars

(***************************************************************************)
(* Page views with API_BASE_URL as it is, empty, or not set.               *)
(***************************************************************************)
Endpoints == {API_BASE_URL, "", Undefined}

InitEndpoint ==
  InitAt(Endpoints,
         {Context(Undefined, "<initData>", InitDataUnsafe("isp"), NoTransferPayload)},
         {"q"}, BankIds,
         {[kind |-> "http_error", body |-> JsonObject],
          [kind |-> "ok", body |-> JsonObject]}
         \cup {[kind |-> "ok", body |-> JsonArray(items)] :
                 items \in {<< >>} \cup {<< e >> : e \in Entries}})

SpecEndpoint == InitEndpoint /\ [][Next]_vars

(***************************************************************************)
(* window.ApiClient with any caller: the three exported operations, with   *)
(* sendRedirectEvent given, or not given, an event type and a page.        *)
(***************************************************************************)
EventTypeArgs == {Undefined, "", "redirect_fallback"}
PageArgs == {Undefined, "", "<page>"}

RedirectEventCalled(bankId, eventType, pageOverride) ==
  /\ view = "miniapp"
  /\ apiCalls < MaxApiCalls
  /\ apiCalls' = apiCalls + 1
  /\ \E o \in PostOutcomes :
       \E w \in {sendRedirectEvent(World, telegramContext, bankId, eventType,
                                   pageOverride, o)} : Commit(w)
  /\ UNCHANGED << inputs, phase, telegramContext, banks, target, failed,
                  blurs, clicks >>

RedirectEvent ==
  \E bankId \in BankIds, eventType \in EventTypeArgs, pageOverride \in PageArgs :
    RedirectEventCalled(bankId, eventType, pageOverride)

InitApi ==
  /\ InitWith({Context("sp", "<initData>", InitDataUnsafe("isp"), NoTransferPayload)},
              {""}, {""}, {[kind |-> "network_error", body |-> JsonObject]})
  /\ view = "miniapp"

NextApi ==
  \/ WebAppOpen
  \/ BankClick
  \/ RedirectEvent
  \/ PostSettles

SpecApi == InitApi /\ [][NextApi]_vars

(***************************************************************************)
(* buildPayload on its own: the function is private to api.js and its      *)
(* callers pass no `extra`, so it is applied here to every argument.       *)
(***************************************************************************)
MaxBuildCalls == 1

\* transferPayload.payload with any subset of its properties.
Inlines ==
  {NoInline}
  \cup {Inline(c, g, p, o) : c \in {Undefined, "<creator>"},
                             g \in {Undefined, "<generated_at>"},
                             p \in {Undefined, "<parsed>"},
                             o \in {Undefined, "<option>"}}

\* Contexts with any subset of their properties, and no context at all.
BuildContexts ==
  {NoContext}
  \cup {Context(sp, d, idu, tp) :
          sp \in {Undefined, "sp"}, d \in {Undefined, "<initData>"},
          idu \in {NoInitDataUnsafe, InitDataUnsafe("isp")},
          tp \in {NoTransferPayload} \cup {TransferPayload(i) : i \in Inlines}}

\* The fifth argument: missing, {}, or an object with own properties.
Extras ==
  {NoExtra, [bank_id |-> "<extra bank>"],
   [page |-> "<extra page>", note |-> "<note>"]}

InitBuild ==
  /\ endpoint = API_BASE_URL
  /\ view = "api"
  /\ bridge \in BuildContexts
  /\ query = [transfer_id |-> "", bank_id |-> ""]
  /\ response = [kind |-> "network_error", body |-> JsonObject]
  /\ phase = "Api"
  /\ telegramContext = bridge
  /\ banks = Pending
  /\ target = NullEntry
  /\ events = << >>
  /\ log = << >>
  /\ started = 0
  /\ pending = 0
  /\ failed = 0
  /\ fallbackTimer = "none"
  /\ blurListener = FALSE
  /\ href = "<initial>"
  /\ statusText = "<initial>"
  /\ clickListeners = << >>
  /\ deeplinkThrew = FALSE
  /\ uncaught = FALSE
  /\ blurs = 0
  /\ clicks = 0
  /\ apiCalls = 0

\* buildPayload(context, eventType, bankId, page, extra) returns; the call's
\* arguments are logged next to the payload.
BuildPayloadCalled ==
  /\ view = "api"
  /\ apiCalls < MaxBuildCalls
  /\ apiCalls' = apiCalls + 1
  /\ \E eventType \in {"webapp_open", "redirect_attempt"},
        bankId \in {Undefined, "", "vtb"},
        page \in {"miniapp", "redirect"},
        extra \in Extras :
       /\ events' = Append(events,
                           buildPayload(telegramContext, eventType, bankId, page, extra))
       /\ log' = Append(log, [kind |-> "buildPayload",
                              arg |-> [eventType |-> eventType, bankId |-> bankId,
                                       page |-> page, extra |-> extra]])
  /\ UNCHANGED << inputs, phase, telegramContext, banks, target, started, pending,
                  failed, fallbackTimer, blurListener, href, statusText,
                  clickListeners, deeplinkThrew, uncaught, blurs, clicks >>

NextBuild == BuildPayloadCalled

SpecBuild == InitBuild /\ [][NextBuild]_vars

(***************************************************************************)
(* Reading the log.                                                        *)
(***************************************************************************)
IsSend(i, eventType) == log[i].kind = "send" /\ log[i].arg = eventType
IsEffect(i, kind) == log[i].kind = kind
Sent(eventType) == \E i \in 1..Len(log) : IsSend(i, eventType)
Happened(kind) == \E i \in 1..Len(log) : IsEffect(i, kind)
Range(seq) == {seq[i] : i \in 1..Len(seq)}

(***************************************************************************)
(* C1                                                                      *)
(***************************************************************************)
\* C1: the promise of loadBanks is never rejected; once the directory
\* request has settled it is resolved, whatever the outcome; and for each
\* failing outcome it is resolved with the one built-in list, which has at
\* least ten entries, each with a non-empty id, title and fallback_url.
C1_LoadBanksNeverRejects ==
  /\ banks.state # "rejected"
  /\ phase \in {"DirectorySettled", "Attempted"} => banks.state = "resolved"
  /\ (banks.state = "resolved" /\ response.kind = "ok")
       => banks.value = response.body
  /\ (banks.state = "resolved" /\ response.kind # "ok") =>
       /\ banks.value.isArray
       /\ banks.value.items = FallbackBanks
       /\ Len(banks.value.items) >= 10
       /\ \A i \in 1..Len(banks.value.items) :
            /\ banks.value.items[i].kind = "object"
            /\ Truthy(banks.value.items[i].id)
            /\ Truthy(banks.value.items[i].title)
            /\ Truthy(banks.value.items[i].fallback_url)

C1_Witness ==
  /\ banks.state = "resolved"
  /\ response.kind = "parse_error"
  /\ Len(banks.value.items) = 11

(***************************************************************************)
(* C2                                                                      *)
(***************************************************************************)
\* C2: no task that calls a telemetry operation ends with an exception, and
\* the caller goes on (the page never fails), whatever starting the POST
\* does; a POST started by a call is still pending when the call has
\* returned; a call starts at most one POST; and a POST that settles, failed
\* or not, starts no POST and submits no event.
C2_TelemetryNeverThrowsNorBlocks ==
  [][ /\ ~uncaught'
      /\ phase' # "Failed"
      /\ started' - started <= Len(events') - Len(events)
      /\ started' >= started
      /\ Len(events') > Len(events) => pending' = pending + (started' - started)
      /\ pending' < pending => (started' = started /\ events' = events /\ log' = log)
    ]_vars

C2_Witness ==
  /\ view = "miniapp"
  /\ Len(events) = 2
  /\ events[1].event_type = "webapp_open"
  /\ events[2].event_type = "bank_click"
  /\ started = 1
  /\ failed = 1
  /\ ~uncaught

(***************************************************************************)
(* C3                                                                      *)
(***************************************************************************)
\* C3: when the directory is an array of descriptors, the bank handed to
\* tryOpenBank is the first descriptor whose id equals the query's bank_id;
\* if there is none, the first descriptor of the directory; and if the
\* directory is empty, a descriptor with id bank_id, or "unknown" for an
\* empty bank_id, an empty deeplink and a non-empty fallback_url.
C3_TargetBankSelection ==
  LET items == banks.value.items
      matches == {i \in 1..Len(items) : items[i].id = query.bank_id}
  IN  (/\ phase = "Attempted"
       /\ banks.value.isArray
       /\ \A i \in 1..Len(items) : items[i].kind = "object")
      => IF matches # {}
           THEN \E i \in matches :
                  items[i] = target /\ \A j \in matches : i <= j
         ELSE IF Len(items) > 0
           THEN target = items[1]
         ELSE /\ target.id = (IF query.bank_id = "" THEN "unknown" ELSE query.bank_id)
              /\ target.deeplink = ""
              /\ Truthy(target.fallback_url)

C3_Witness ==
  /\ phase = "Attempted"
  /\ response.kind = "ok"
  /\ Len(banks.value.items) = 2
  /\ banks.value.items[1].id = "b"
  /\ banks.value.items[2].id = "vtb"
  /\ query.bank_id = "vtb"
  /\ target = banks.value.items[2]

(***************************************************************************)
(* C4                                                                      *)
(***************************************************************************)
\* The fallbackTimer stays armed from its start until it expires or the blur
\* listener clears it.
TimerArmedUntilExpiryOrBlur ==
  fallbackTimer = "armed" <=>
    (Happened("fallbackTimer") /\ ~Happened("timeout") /\ ~Happened("clearTimeout"))

\* A focus loss before the fallbackTimer's expiry cancels the fallbackTimer, and nothing of
\* the fallback step happens after it.
BlurFirstSuppressesFallback ==
  \A i \in 1..Len(log) :
    (IsEffect(i, "clearTimeout") /\ \A k \in 1..(i - 1) : ~IsEffect(k, "timeout"))
    => /\ fallbackTimer = "cancelled"
       /\ \A j \in (i + 1)..Len(log) :
            ~IsSend(j, "redirect_fallback") /\ ~IsEffect(j, "nav_fallback")

\* C4 as claimed: for a bank with a deep link, when the fallbackTimer expires the
\* page navigates to fallback_url; a focus loss before the expiry cancels the
\* fallbackTimer and no fallback happens after it.
C4_Original ==
  (phase = "Attempted" /\ Truthy(target.deeplink)) =>
    /\ TimerArmedUntilExpiryOrBlur
    /\ \A i \in 1..Len(log) :
         IsEffect(i, "timeout") =>
           /\ i + 2 <= Len(log)
           /\ IsSend(i + 1, "redirect_fallback")
           /\ IsEffect(i + 2, "nav_fallback")
           /\ log[i + 2].arg = target.fallback_url
    /\ BlurFirstSuppressesFallback

\* C4, amended: for a bank with a deep link, when the fallbackTimer expires the
\* fallback step runs: redirect_fallback is submitted and the page navigates
\* to fallback_url if that is non-empty, and stays where it is otherwise; a
\* focus loss before the expiry cancels the fallbackTimer and no fallback happens
\* after it.
C4_TimerAndFocusLossRace ==
  (phase = "Attempted" /\ Truthy(target.deeplink)) =>
    /\ TimerArmedUntilExpiryOrBlur
    /\ \A i \in 1..Len(log) :
         IsEffect(i, "timeout") =>
           /\ i + 1 <= Len(log)
           /\ IsSend(i + 1, "redirect_fallback")
           /\ IF Truthy(target.fallback_url)
                THEN /\ i + 2 <= Len(log)
                     /\ IsEffect(i + 2, "nav_fallback")
                     /\ log[i + 2].arg = target.fallback_url
                ELSE ~Happened("nav_fallback")
    /\ BlurFirstSuppressesFallback

C4_Witness ==
  /\ phase = "Attempted"
  /\ Truthy(target.deeplink)
  /\ ~Truthy(target.fallback_url)
  /\ fallbackTimer = "fired"
  /\ Sent("redirect_fallback")
  /\ ~Happened("clearTimeout")

(***************************************************************************)
(* C5                                                                      *)
(***************************************************************************)
NoDeepLinkAttempt ==
  /\ fallbackTimer = "none"
  /\ ~blurListener
  /\ ~Happened("fallbackTimer")
  /\ ~Happened("listen")
  /\ ~Happened("nav_deeplink")

\* C5 as claimed: for a bank without a deep link, tryOpenBank arms no fallbackTimer,
\* registers no listener, attempts no deep link, and in the same task
\* submits redirect_fallback and navigates to fallback_url.
C5_Original ==
  (phase = "Attempted" /\ ~Truthy(target.deeplink)) =>
    /\ NoDeepLinkAttempt
    /\ \E i \in 1..Len(log) :
         /\ IsSend(i, "redirect_attempt")
         /\ i + 2 <= Len(log)
         /\ IsSend(i + 1, "redirect_fallback")
         /\ IsEffect(i + 2, "nav_fallback")
         /\ log[i + 2].arg = target.fallback_url

\* C5, amended: for a bank without a deep link, tryOpenBank arms no fallbackTimer,
\* registers no listener, attempts no deep link, and in the same task
\* submits redirect_fallback and, if fallback_url is non-empty, navigates to
\* it; if fallback_url is empty too, the page is left in place.
C5_NoDeepLinkFallsBackAtOnce ==
  (phase = "Attempted" /\ ~Truthy(target.deeplink)) =>
    /\ NoDeepLinkAttempt
    /\ \E i \in 1..Len(log) :
         /\ IsSend(i, "redirect_attempt")
         /\ i + 1 <= Len(log)
         /\ IsSend(i + 1, "redirect_fallback")
         /\ IF Truthy(target.fallback_url)
              THEN /\ i + 2 <= Len(log)
                   /\ IsEffect(i + 2, "nav_fallback")
                   /\ log[i + 2].arg = target.fallback_url
              ELSE ~Happened("nav_fallback")

C5_Witness ==
  /\ phase = "Attempted"
  /\ response.kind = "ok"
  /\ target \in Range(banks.value.items)
  /\ ~Truthy(target.deeplink)
  /\ ~Truthy(target.fallback_url)
  /\ Sent("redirect_fallback")
  /\ href = "#"

(***************************************************************************)
(* C6                                                                      *)
(***************************************************************************)
\* C6: when assigning the deep link raises, the fallback step runs in the
\* same task, right after the listener was registered and before the fallbackTimer
\* can expire: redirect_fallback is submitted, and then the page navigates to
\* fallback_url if and only if that is non-empty.
C6_DeepLinkThrowFallsBackAtOnce ==
  deeplinkThrew =>
    /\ ~Happened("nav_deeplink")
    /\ \E i \in 1..Len(log) :
         /\ IsEffect(i, "listen")
         /\ i + 1 <= Len(log)
         /\ IsSend(i + 1, "redirect_fallback")
         /\ IF Truthy(target.fallback_url)
              THEN /\ i + 2 <= Len(log)
                   /\ IsEffect(i + 2, "nav_fallback")
                   /\ log[i + 2].arg = target.fallback_url
              ELSE \A j \in 1..Len(log) : ~IsEffect(j, "nav_fallback")

C6_Witness ==
  /\ deeplinkThrew
  /\ fallbackTimer = "armed"
  /\ Sent("redirect_fallback")
  /\ Happened("nav_fallback")
  /\ ~Happened("timeout")

(***************************************************************************)
(* C7                                                                      *)
(***************************************************************************)
Before(P(_), i) == \E j \in 1..(i - 1) : P(j)

\* C7: redirect_open is submitted before the directory is requested;
\* redirect_attempt is submitted after the UI was updated and before the
\* fallbackTimer is started or the deep link is navigated to; redirect_fallback is
\* submitted after redirect_attempt and right before the navigation to
\* fallback_url; and a fallback step navigates, to the bank's fallback_url,
\* if and only if that is non-empty.
C7_TelemetryPhaseOrder ==
  /\ phase \in {"DirectoryLoading", "DirectorySettled", "Attempted"}
       => (IsSend(1, "redirect_open") /\ Happened("load"))
  /\ phase = "Attempted" => (Happened("ui") /\ Sent("redirect_attempt"))
  /\ \A i \in 1..Len(log) :
       /\ IsEffect(i, "load") =>
            Before(LAMBDA j : IsSend(j, "redirect_open"), i)
       /\ IsSend(i, "redirect_attempt") =>
            /\ target # NullEntry
            /\ Before(LAMBDA j : IsEffect(j, "ui"), i)
            /\ Before(LAMBDA j : IsEffect(j, "load"), i)
       /\ (IsEffect(i, "fallbackTimer") \/ IsEffect(i, "listen") \/ IsEffect(i, "nav_deeplink")) =>
            Before(LAMBDA j : IsSend(j, "redirect_attempt"), i)
       /\ IsSend(i, "redirect_fallback") =>
            /\ Before(LAMBDA j : IsSend(j, "redirect_attempt"), i)
            /\ Truthy(target.fallback_url) <=>
                 (i < Len(log) /\ IsEffect(i + 1, "nav_fallback"))
       /\ IsEffect(i, "nav_fallback") =>
            /\ i > 1
            /\ IsSend(i - 1, "redirect_fallback")
            /\ log[i].arg = target.fallback_url

C7_Witness ==
  /\ Happened("nav_deeplink")
  /\ Happened("timeout")
  /\ Happened("nav_fallback")
  /\ Sent("redirect_manual_click")

(***************************************************************************)
(* C9                                                                      *)
(***************************************************************************)
\* C9 as claimed: the bank handed to tryOpenBank has a non-empty fallback_url
\* or a non-empty deeplink, for every directory, a fetched one included; and
\* the synthesized descriptor has a non-empty fallback_url.
C9_Original ==
  phase = "Attempted" =>
    /\ Truthy(target.fallback_url) \/ Truthy(target.deeplink)
    /\ Truthy(fallbackBank(query.bank_id).fallback_url)

\* C9, amended: the bank handed to tryOpenBank has a non-empty fallback_url
\* or a non-empty deeplink when it comes from the built-in list or is the
\* synthesized descriptor, which always has a non-empty fallback_url; an
\* entry of a fetched list is used as it was fetched, so it has one exactly
\* when the fetched entry does.
C9_NavigableBank ==
  phase = "Attempted" =>
    /\ response.kind # "ok" =>
         (target \in Range(FallbackBanks)
            /\ (Truthy(target.fallback_url) \/ Truthy(target.deeplink)))
    /\ response.kind = "ok" =>
         \/ target \in Range(response.body.items)
         \/ /\ target.id = (IF query.bank_id = "" THEN "unknown" ELSE query.bank_id)
            /\ Truthy(target.fallback_url)
            /\ \/ ~response.body.isArray
               \/ Len(response.body.items) = 0
               \/ NullEntry \in Range(response.body.items)

C9_Witness ==
  /\ phase = "Attempted"
  /\ response.kind = "ok"
  /\ response.body.isArray
  /\ Len(response.body.items) = 0
  /\ query.bank_id = ""
  /\ target.id = "unknown"
  /\ Truthy(target.fallback_url)

(***************************************************************************)
(* C10                                                                     *)
(***************************************************************************)
\* The first non-empty of the three sources, in the order given.
FirstNonEmpty(values) ==
  IF \E i \in 1..Len(values) : Truthy(values[i])
    THEN values[CHOOSE i \in 1..Len(values) :
                  Truthy(values[i]) /\ \A j \in 1..(i - 1) : ~Truthy(values[j])]
    ELSE ""

StartParamOf(context) == IF context.defined THEN context.startParam ELSE Undefined
InitDataStartParamOf(context) ==
  IF context.defined /\ context.initDataUnsafe.defined
    THEN context.initDataUnsafe.start_param ELSE Undefined

\* C10: every payload's transfer_id is the context's startParam when that is
\* non-empty, else initDataUnsafe.start_param when present and non-empty,
\* else ""; and on the redirect page the context's startParam is the
\* bridge's when that is non-empty and the query's transfer_id otherwise, so
\* that a payload of the redirect page carries the first non-empty of the
\* bridge's startParam, the query's transfer_id and
\* initDataUnsafe.start_param.
C10_TransferIdPriority ==
  /\ \A i \in 1..Len(events) :
       /\ events[i].transfer_id =
            FirstNonEmpty(<< StartParamOf(telegramContext),
                             InitDataStartParamOf(telegramContext) >>)
       /\ events[i].transfer_id =
            FirstNonEmpty(IF view = "redirect"
                            THEN << StartParamOf(bridge), query.transfer_id,
                                    InitDataStartParamOf(bridge) >>
                            ELSE << StartParamOf(bridge),
                                    InitDataStartParamOf(bridge) >>)
  /\ (view = "redirect" /\ phase # "Init") =>
       /\ Truthy(bridge.startParam) => telegramContext.startParam = bridge.startParam
       /\ ~Truthy(bridge.startParam) =>
            telegramContext.startParam = query.transfer_id
       /\ telegramContext.initDataUnsafe = bridge.initDataUnsafe

C10_Witness ==
  /\ view = "redirect"
  /\ ~Truthy(bridge.startParam)
  /\ query.transfer_id = "q"
  /\ bridge.initDataUnsafe.defined
  /\ bridge.initDataUnsafe.start_param = "isp"
  /\ Len(events) >= 3
  /\ events[3].transfer_id = "q"

(***************************************************************************)
(* C8                                                                      *)
(***************************************************************************)
\* The page's events are delivered, the directory request settles, promise
\* reactions run, and an armed fallbackTimer expires unless it is cleared first.
Fairness ==
  /\ WF_vars(DOMContentLoaded)
  /\ WF_vars(LoadBanksSettles)
  /\ WF_vars(BanksHandled)
  /\ WF_vars(TimerFires)

\* Page views over each kind of directory: the request fails, the body is
\* no array, the array is empty, or it holds one entry of any kind.
InitLive ==
  InitWith({Context(Undefined, "<initData>", InitDataUnsafe("isp"), NoTransferPayload)},
           {"q"}, BankIds,
           {[kind |-> "http_error", body |-> JsonObject],
            [kind |-> "ok", body |-> JsonObject]}
           \cup {[kind |-> "ok", body |-> JsonArray(items)] :
                   items \in {<< >>} \cup {<< e >> : e \in Entries}})

SpecLive == InitLive /\ [][Next]_vars /\ Fairness

\* The deep link was attempted and a focus loss cleared the fallbackTimer.
FallbackSuppressed == Happened("nav_deeplink") /\ fallbackTimer = "cancelled"

\* The page was navigated to the bank's fallback URL.
FallbackNavigated ==
  \E i \in 1..Len(log) :
    IsEffect(i, "nav_fallback") /\ log[i].arg = target.fallback_url

\* Nothing more happens by itself, and the manual link has its target.
LeftInPlace ==
  /\ fallbackTimer # "armed"
  /\ Sent("redirect_fallback")
  /\ ~Happened("nav_fallback")
  /\ href = Or(Or(target.fallback_url, target.deeplink), "#")

\* C8: every view of the redirect page, whatever the directory request and
\* the deep link do, comes to a state where the navigation attempt was made
\* and either the fallback is suppressed by a focus loss, or the page was
\* navigated to the fallback URL, or the page is left in place with the
\* manual link set; so it does not stay in Init, DirectoryLoading or with a
\* directory that no handler took up.
C8_NoFatalPath ==
  (view = "redirect") ~>
    (/\ phase = "Attempted"
     /\ ~uncaught
     /\ FallbackSuppressed \/ FallbackNavigated \/ LeftInPlace)

C8_Witness ==
  /\ phase = "Attempted"
  /\ response.kind = "ok"
  /\ ~response.body.isArray
  /\ FallbackNavigated
  /\ target = fallbackBank(query.bank_id)

(***************************************************************************)
(* C11                                                                     *)
(***************************************************************************)
\* The documented fields of a payload.
PayloadFields ==
  {"transfer_id", "transfer_payload", "inline_creator_tg_user_id",
   "inline_generated_at", "inline_parsed", "inline_option", "event_type", "ts",
   "initData", "initDataUnsafe", "userAgent", "language", "platform", "page",
   "bank_id"}

\* The property `name` of context.transferPayload.payload, Undefined when
\* the context, the transferPayload or the payload is missing.
InlineProperty(context, name) ==
  IF /\ context.defined
     /\ context.transferPayload.defined
     /\ context.transferPayload.payload.defined
    THEN context.transferPayload.payload[name]
    ELSE Undefined

\* The value when it is present, the default otherwise.
Defaulted(value, default) == IF Truthy(value) THEN value ELSE default

\* C11: a payload has every documented field, whatever the context, a
\* missing context and a context missing any of its properties included;
\* a field whose source is absent has its default: null for
\* inline_creator_tg_user_id, "" for inline_generated_at, initData and
\* bank_id, {} for inline_parsed, inline_option, transfer_payload and
\* initDataUnsafe; a field of `extra` replaces the base field of its name or
\* is added, and every other base field is kept.
C11_PayloadFieldsAndDefaults ==
  \A i \in 1..Len(events) :
    LET payload == events[i]
        call == log[i].arg
        context == telegramContext
        base(field) ==
          CASE field = "inline_creator_tg_user_id" ->
                 Defaulted(InlineProperty(context, "creator_tg_user_id"), Null)
            [] field = "inline_generated_at" ->
                 Defaulted(InlineProperty(context, "generated_at"), "")
            [] field = "inline_parsed" ->
                 Defaulted(InlineProperty(context, "parsed"), "{}")
            [] field = "inline_option" ->
                 Defaulted(InlineProperty(context, "option"), "{}")
            [] field = "transfer_payload" ->
                 IF context.defined /\ context.transferPayload.defined
                   THEN context.transferPayload ELSE EmptyTransferPayload
            [] field = "initData" ->
                 IF context.defined THEN Defaulted(context.initData, "") ELSE ""
            [] field = "initDataUnsafe" ->
                 IF context.defined /\ context.initDataUnsafe.defined
                   THEN context.initDataUnsafe ELSE EmptyInitDataUnsafe
            [] field = "bank_id" -> Defaulted(call.bankId, "")
            [] field = "event_type" -> call.eventType
            [] field = "page" -> call.page
            [] field = "userAgent" -> navigator.userAgent
            [] field = "language" -> navigator.language
            [] field = "platform" -> navigator.platform
            [] field = "ts" -> "<now>"
            [] field = "transfer_id" ->
                 FirstNonEmpty(<< StartParamOf(context),
                                  InitDataStartParamOf(context) >>)
    IN  /\ log[i].kind = "buildPayload"
        /\ DOMAIN payload = PayloadFields \cup DOMAIN call.extra
        /\ \A field \in DOMAIN call.extra : payload[field] = call.extra[field]
        /\ \A field \in PayloadFields \ DOMAIN call.extra :
             payload[field] = base(field)

C11_Witness ==
  /\ Len(events) = 1
  /\ ~telegramContext.defined
  /\ log[1].arg.bankId = "vtb"
  /\ log[1].arg.extra = [bank_id |-> "<extra bank>"]
  /\ events[1].bank_id = "<extra bank>"
  /\ events[1].inline_creator_tg_user_id = Null
  /\ events[1].inline_parsed = "{}"
  /\ events[1].page = log[1].arg.page

(***************************************************************************)
(* C12                                                                     *)
(***************************************************************************)
\* The step hands exactly one payload to safePost, with these tags.
Emits(eventType, page, bankId) ==
  /\ Len(events') = Len(events) + 1
  /\ SubSeq(events', 1, Len(events)) = events
  /\ events'[Len(events')].event_type = eventType
  /\ events'[Len(events')].page = page
  /\ events'[Len(events')].bank_id = bankId
  /\ started' - started <= 1

\* C12: a call of sendWebAppOpen emits one event with event_type
\* "webapp_open", page "miniapp" and an empty bank id; a call of
\* sendBankClick emits one event with event_type "bank_click", page
\* "miniapp" and the given bank id; a call of sendRedirectEvent emits one
\* event with the given bank id, the caller's event type, or
\* "redirect_open" when that is missing or empty, and the caller's page, or
\* "redirect" when that is missing or empty.
C12_OperationTags ==
  [][ /\ WebAppOpen => Emits("webapp_open", "miniapp", "")
      /\ \A bankId \in BankIds :
           BankClickWith(bankId) => Emits("bank_click", "miniapp", bankId)
      /\ \A bankId \in BankIds, eventType \in EventTypeArgs,
            pageOverride \in PageArgs :
           RedirectEventCalled(bankId, eventType, pageOverride) =>
             Emits(IF eventType \in {Undefined, ""} THEN "redirect_open" ELSE eventType,
                   IF pageOverride \in {Undefined, ""} THEN "redirect" ELSE pageOverride,
                   bankId)
    ]_vars

C12_Witness ==
  /\ view = "miniapp"
  /\ Len(events) = 2
  /\ events[1].event_type = "bank_click"
  /\ events[1].bank_id = "vtb"
  /\ events[1].page = "miniapp"
  /\ events[2].event_type = "redirect_open"
  /\ events[2].page = "<page>"

(***************************************************************************)
(* C13                                                                     *)
(***************************************************************************)
\* The catch handler took over with the descriptor of the empty-directory
\* case: the UI shows it, it is the only bank of the page view, and the
\* navigation attempt was started with it.
RecoveredWithSynthesized ==
  /\ ~uncaught
  /\ target = targetBank(JsonArray(<< >>), query.bank_id).bank
  /\ target.id = (IF query.bank_id = "" THEN "unknown" ELSE query.bank_id)
  /\ target.deeplink = ""
  /\ target.fallback_url = "https://www.google.com"
  /\ href = "https://www.google.com"
  /\ clickListeners = << target.id >>
  /\ \E i \in 1..Len(log) :
       /\ IsEffect(i, "ui")
       /\ log[i].arg = target.id
       /\ i < Len(log)
       /\ IsSend(i + 1, "redirect_attempt")
       /\ \A j \in 1..Len(log) : IsEffect(j, "ui") => j = i
  /\ \A i \in 1..Len(events) :
       events[i].event_type = "redirect_attempt" => events[i].bank_id = target.id

\* The directory holds an entry whose id cannot be read.
HasUnreadableEntry ==
  \E i \in 1..Len(banks.value.items) : banks.value.items[i].kind = "null"

\* The search meets an entry whose id cannot be read before it meets an
\* entry with the id of the query.
SearchMeetsUnreadableEntry ==
  \E i \in 1..Len(banks.value.items) :
    /\ banks.value.items[i].kind = "null"
    /\ \A j \in 1..(i - 1) :
         ~(banks.value.items[j].kind = "object"
             /\ banks.value.items[j].id = query.bank_id)

\* C13 as claimed: when the resolved value is no array, or holds an entry
\* whose id cannot be read, the catch handler takes over with the
\* synthesized descriptor.
C13_Original ==
  (phase = "Attempted" /\ (~banks.value.isArray \/ HasUnreadableEntry))
    => RecoveredWithSynthesized

\* C13, amended: when the resolved value is no array, or the search meets an
\* entry whose id cannot be read before it meets an entry with the id of the
\* query, the catch handler takes over with the synthesized descriptor,
\* updates the UI and starts the navigation attempt with it; an unreadable
\* entry behind the first entry with the id of the query is never read, and
\* that entry is the target.
C13_UnsearchableDirectoryRecovers ==
  /\ (phase = "Attempted" /\ (~banks.value.isArray \/ SearchMeetsUnreadableEntry))
       => RecoveredWithSynthesized
  /\ (phase = "Attempted" /\ banks.value.isArray /\ HasUnreadableEntry
        /\ ~SearchMeetsUnreadableEntry)
       => \E i \in 1..Len(banks.value.items) :
            /\ banks.value.items[i] = target
            /\ target.kind = "object"
            /\ target.id = query.bank_id
            /\ \A j \in 1..(i - 1) : banks.value.items[j].kind = "object"

C13_Witness ==
  /\ phase = "Attempted"
  /\ banks.value.isArray
  /\ Len(banks.value.items) = 2
  /\ banks.value.items[1].id = "b"
  /\ banks.value.items[2] = NullEntry
  /\ query.bank_id = "vtb"
  /\ target.id = "vtb"
  /\ RecoveredWithSynthesized
  /\ Happened("nav_fallback")

(***************************************************************************)
(* C14                                                                     *)
(***************************************************************************)
\* The target of the manual link for a bank.
LinkTarget(bank) ==
  IF bank.fallback_url \notin {Undefined, Null, ""} THEN bank.fallback_url
  ELSE IF bank.deeplink \notin {Undefined, Null, ""} THEN bank.deeplink
  ELSE "#"

\* The manual link has the bank's target as soon as the bank is resolved and
\* not before, and it is set before anything of the navigation attempt.
LinkSetBeforeAttempt ==
  /\ phase = "Attempted" => (href = LinkTarget(target) /\ Happened("ui"))
  /\ phase # "Attempted" => (href = "<initial>" /\ ~Happened("ui"))
  /\ \A i \in 1..Len(log) :
       (\/ IsSend(i, "redirect_attempt") \/ IsSend(i, "redirect_fallback")
        \/ IsEffect(i, "fallbackTimer") \/ IsEffect(i, "listen")
        \/ IsEffect(i, "nav_deeplink") \/ IsEffect(i, "nav_fallback"))
       => \E j \in 1..(i - 1) : IsEffect(j, "ui") /\ log[j].arg = target.id

Control(w) == [w EXCEPT !.started = 0, !.pending = 0]

\* The controller's next step is ready, whatever the state of the POSTs.
NoStepWaitsForPost ==
  /\ phase = "Init" => ENABLED DOMContentLoaded
  /\ phase = "DirectoryLoading" => ENABLED LoadBanksSettles
  /\ phase = "DirectorySettled" => ENABLED BanksHandled
  /\ fallbackTimer = "armed" => ENABLED TimerFires

\* C15: every step of the controller does what it does when no POST can
\* even be started: the directory request, the bank and the UI, the fallbackTimer,
\* the listener and both navigations come in the same order with the same
\* targets, whatever the POSTs' outcomes; a POST that settles, failed or
\* not, changes nothing of it; and each next step of the controller is ready
\* while POSTs are pending.
C15_ProgressIndependentOfTelemetry ==
  /\ []NoStepWaitsForPost
  /\ [][
      /\ (phase' # phase /\ DOMContentLoaded) =>
           /\ phase' = "DirectoryLoading"
           /\ Control(World') =
                Control(Effect(sendRedirectEvent(World, telegramContext', query.bank_id,
                                                 "redirect_open", Undefined,
                                                 "fetch_threw"),
                               "load", ConfigPath(TRUE)))
      /\ (phase' # phase /\ BanksHandled) =>
           /\ phase' = "Attempted"
           /\ \E deeplinkThrows \in BOOLEAN :
                \E done \in {BanksReactions(World, banks, telegramContext,
                                            query.bank_id, deeplinkThrows,
                                            "fetch_threw", "stringify_threw")} :
                  Control(World') = Control(done.world) /\ target' = done.target
      /\ (fallbackTimer' # fallbackTimer /\ TimerFires) =>
           Control(World') =
             Control(switchToFallback(Effect([World EXCEPT !.fallbackTimer = "fired"],
                                             "timeout", "fallbackTimer"),
                                      telegramContext, target, "fetch_threw"))
      /\ (pending' < pending /\ PostSettles) =>
           /\ Control(World') = Control(World)
           /\ << phase, target, banks, telegramContext >>' =
                << phase, target, banks, telegramContext >>
    ]_vars

C15_Witness ==
  /\ phase = "Attempted"
  /\ Happened("nav_deeplink")
  /\ Happened("nav_fallback")
  /\ Len(events) = 3
  /\ started = 2
  /\ pending = 1
  /\ failed = 1

(***************************************************************************)
(* C16                                                                     *)
(***************************************************************************)
\* The number of log entries of a kind.
Count(kind) == Cardinality({i \in 1..Len(log) : IsEffect(i, kind)})

\* C16: with API_BASE_URL empty or not set, no telemetry operation starts a
\* POST: none is started, pending or failed; each payload handed to safePost
\* leaves one debug line, right after it; no task ends with an exception;
\* and the callers go on, so that the page comes to its navigation attempt
\* as it does with the URL set.
C16_EmptyEndpointSkipsNetwork ==
  ~Truthy(endpoint) =>
    /\ started = 0 /\ pending = 0 /\ failed = 0
    /\ ~uncaught
    /\ phase # "Failed"
    /\ Count("debug") = Len(events)
    /\ Count("send") = Len(events)
    /\ \A i \in 1..Len(log) :
         IsEffect(i, "send") => (i < Len(log) /\ IsEffect(i + 1, "debug"))
    /\ phase = "Attempted" =>
         /\ Sent("redirect_open") /\ Sent("redirect_attempt")
         /\ Happened("ui")
         /\ ~Truthy(target.deeplink) => Sent("redirect_fallback")
         /\ (~Truthy(target.deeplink) /\ Truthy(target.fallback_url))
              => Happened("nav_fallback")

C16_Witness ==
  /\ endpoint = ""
  /\ phase = "Attempted"
  /\ Len(events) = 4
  /\ events[4].event_type = "redirect_manual_click"
  /\ Happened("nav_fallback")
  /\ Count("debug") = 4
  /\ started = 0

(***************************************************************************)
(* C17                                                                     *)
(***************************************************************************)
\* How often an event type was submitted.
CountSent(eventType) == Cardinality({i \in 1..Len(log) : IsSend(i, eventType)})

\* C17 as claimed: in a page view redirect_fallback is submitted at most
\* once and the page is navigated to fallback_url at most once, on every
\* path; after a deep-link assignment that raised, the fallbackTimer does not run
\* the fallback step again.
C17_Original ==
  /\ CountSent("redirect_fallback") <= 1
  /\ Count("nav_fallback") <= 1

\* What does hold for C17: the fallback step runs at most once on every path
\* where the deep-link assignment did not raise, and at most twice at all.
C17_FallbackOnceUnlessDeepLinkRaised ==
  /\ ~deeplinkThrew =>
       (CountSent("redirect_fallback") <= 1 /\ Count("nav_fallback") <= 1)
  /\ CountSent("redirect_fallback") <= 2
  /\ Count("nav_fallback") <= CountSent("redirect_fallback")

\* The deep-link assignment raised, the fallback step ran in the catch
\* block, and the fallbackTimer, never cleared, ran it again.
C17_Witness ==
  /\ deeplinkThrew
  /\ fallbackTimer = "fired"
  /\ ~Happened("clearTimeout")
  /\ CountSent("redirect_fallback") = 2
  /\ ~Truthy(target.fallback_url)
  /\ ~Happened("nav_fallback")

C19_OnlyFocusLossWhileArmedSuppresses ==
  /\ [](fallbackTimer = "armed" => ENABLED TimerFires)
  /\ [][
      /\ fallbackTimer' = "cancelled" =>
           \/ fallbackTimer = "cancelled"
           \/ blurs' # blurs /\ Blur /\ blurListener /\ fallbackTimer = "armed"
      /\ (blurs' # blurs /\ Blur /\ ~blurListener) =>
           UNCHANGED << phase, telegramContext, banks, target, events, log, started,
                        pending, failed, fallbackTimer, blurListener, href,
                        statusText, clickListeners, deeplinkThrew, uncaught >>
      /\ (blurs' # blurs /\ Blur /\ blurListener /\ fallbackTimer # "armed") =>
           /\ fallbackTimer = "fired"
           /\ log' = Append(log, [kind |-> "clearTimeout", arg |-> "blur"])
           /\ UNCHANGED << phase, target, events, started, pending, fallbackTimer,
                           href, statusText, clickListeners, uncaught >>
      /\ (fallbackTimer' # fallbackTimer /\ TimerFires) =>
           /\ fallbackTimer' = "fired"
           /\ Emits("redirect_fallback", "redirect", target.id)
           /\ Truthy(target.fallback_url) =>
                log'[Len(log')] = [kind |-> "nav_fallback", arg |-> target.fallback_url]
    ]_vars

\* The one focus loss came before the listener was registered: the listener
\* is still there, and the fallbackTimer has expired and navigated.
C19_Witness ==
  /\ blurs = 1
  /\ blurListener
  /\ ~Happened("clearTimeout")
  /\ Happened("nav_deeplink")
  /\ fallbackTimer = "fired"
  /\ Happened("nav_fallback")
  /\ Count("nav_fallback") = 1

====
